---- MODULE Spec2Model ----
(***************************************************************************)
(* Model of src/main.py: the notaries-directory crawler.                   *)
(*                                                                         *)
(*   main              the pagination driver (the main thread)             *)
(*   process_notaries  the batch coordinator: one thread per listing entry *)
(*   get_notary_details  the worker: one browser session per extraction    *)
(*   save_to_excel     the merge of a batch into the workbook on disk      *)
(*                                                                         *)
(* Text is a sequence of atoms: " " is whitespace, every other atom is a   *)
(* run of non-blank characters ("mailto:" is the scheme prefix).           *)
(***************************************************************************)
EXTENDS Integers, Sequences, FiniteSets, TLC

VARIABLES
    pc,             \* where the main thread is in main / process_notaries / save_to_excel
    doneBy,         \* why the run ended ("" while it runs)
    page,           \* main: page
    listed,         \* listing rows the site has shown in this run (bounds the directory)
    list_elements,  \* main: the handles of the listing rows of the current page
    i,              \* main: offset of the current batch in list_elements
    all_data,       \* main: len(all_data), the records returned by the batches of this run
    main_driver,    \* main: the session of the main thread
    elements,       \* process_notaries: the handles of the batch
    index,          \* process_notaries: enumerate() position of the dispatch loop
    listing,        \* what each row of the batch held when the dispatch loop read it
    threads,        \* process_notaries: the threads started, in start order
    result_queue,   \* process_notaries: the Queue the workers put into
    details,        \* process_notaries: the records drained / save_to_excel: new_data
    df,             \* save_to_excel: the merged frame about to be written
    store,          \* the workbook file OUTPUT_FILENAME
    persisted,      \* the rows the file held when the last save_to_excel call returned
    quits           \* quits[s]: how often session s had quit() called; Len = sessions created

driverVars == <<page, listed, list_elements, i, all_data, main_driver>>
batchVars == <<elements, index, listing, details, df>>
workerVars == <<threads, result_queue>>
storeVars == <<store, persisted>>

vars == <<pc, doneBy, driverVars, batchVars, workerVars, storeVars, quits>>

-----------------------------------------------------------------------------
(* Bounds of the model. *)

\* Pages 0..MaxPage can have listing rows; the probe of page MaxPage+1 finds none.
MaxPage == 1
\* The directory lists at most MaxNotaries rows over all its pages.
MaxNotaries == 3
\* Records per save_to_excel call in MergeSpec.
MaxBatch == 2
\* Concurrency cap (main.py line 37 sets the tunable to 7; the model runs it smaller).
BATCH_SIZE == 2

-----------------------------------------------------------------------------
(* Text: str.split(), str.replace() *)

SPACE == " "
MAILTO == "mailto:"
EMPTY == <<>>

\* Exceptions a field expression raises, as values of the expression.
IndexError == <<"!IndexError">>
AttributeError == <<"!AttributeError">>
Raised(v) == v \in {IndexError, AttributeError}

\* Missing cell of a DataFrame (float nan in an object column).
NaN == <<"!NaN">>
\* Missing value of the numeric "index" column.
NaNIndex == -1

RECURSIVE SplitFrom(_, _, _)
SplitFrom(s, k, cur) ==
    IF k > Len(s)
    THEN (IF cur = EMPTY THEN <<>> ELSE <<cur>>)
    ELSE IF s[k] = SPACE
         THEN (IF cur = EMPTY THEN <<>> ELSE <<cur>>) \o SplitFrom(s, k + 1, EMPTY)
         ELSE SplitFrom(s, k + 1, Append(cur, s[k]))

\* s.split(): the maximal runs of non-whitespace, in order.
Split(s) == SplitFrom(s, 1, EMPTY)

\* s.replace("mailto:", ""): every occurrence of the prefix is removed.
StripMailto(s) == SelectSeq(s, LAMBDA a : a # MAILTO)

\* full_name.split()[0] if full_name else ""
FirstNameOf(full_name) ==
    IF full_name = EMPTY THEN EMPTY
    ELSE IF Split(full_name) = <<>> THEN IndexError
    ELSE Split(full_name)[1]

\* What find_element / get_attribute found that is no text.
ABSENT == <<"!NoSuchElement">>
NOHREF == <<"!None">>

\* The country node: ABSENT (NoSuchElementException) or its text.
\* country_element.text.split()[-1] if country_element else ""
CountryOf(node) ==
    IF node = ABSENT THEN EMPTY
    ELSE IF Split(node) = <<>> THEN IndexError
    ELSE Split(node)[Len(Split(node))]

\* The mail link: ABSENT (NoSuchElementException), NOHREF (get_attribute
\* gives None) or its href.
\* email_element.get_attribute("href").replace("mailto:", "")
EmailOf(link) ==
    IF link = ABSENT THEN EMPTY
    ELSE IF link = NOHREF THEN AttributeError
    ELSE StripMailto(link)

-----------------------------------------------------------------------------
(* Frames: pd.DataFrame, pd.read_excel, pd.concat, drop_duplicates,         *)
(* sort_values, drop, to_excel.  A frame is a sequence of rows.             *)

Cols == {"FullName", "FirstName", "Email", "Country"}

\* The four persisted fields of a record or frame row.
Fields(r) == [c \in Cols |-> r[c]]

\* pd.read_excel: an empty cell comes back as NaN; there is no index column.
ReadExcel(rows) ==
    [k \in 1..Len(rows) |-> [c \in Cols |-> IF rows[k][c] = EMPTY THEN NaN ELSE rows[k][c]]]

\* pd.concat([existing_df, new_df]): the union of the columns; the rows read
\* from the file have no "index" and get NaN there.
Concat(existing_df, new_df) ==
    [k \in 1..Len(existing_df) |->
        [index |-> NaNIndex, FullName |-> existing_df[k].FullName,
         FirstName |-> existing_df[k].FirstName, Email |-> existing_df[k].Email,
         Country |-> existing_df[k].Country]]
    \o new_df

\* drop_duplicates(): a row equal in every column to an earlier row is dropped.
RECURSIVE DropDuplicatesFrom(_, _)
DropDuplicatesFrom(frame, k) ==
    IF k > Len(frame) THEN <<>>
    ELSE (IF \E j \in 1..(k - 1) : frame[j] = frame[k] THEN <<>> ELSE <<frame[k]>>)
         \o DropDuplicatesFrom(frame, k + 1)

DropDuplicates(frame) == DropDuplicatesFrom(frame, 1)

\* Insert row r into a frame sorted by index, after the rows with a key <= its own.
RECURSIVE InsertByIndex(_, _)
InsertByIndex(sorted, r) ==
    IF sorted = <<>> THEN <<r>>
    ELSE IF sorted[1].index <= r.index
         THEN <<sorted[1]>> \o InsertByIndex(Tail(sorted), r)
         ELSE <<r>> \o sorted

RECURSIVE SortNumbered(_)
SortNumbered(frame) ==
    IF frame = <<>> THEN <<>>
    ELSE InsertByIndex(SortNumbered(SubSeq(frame, 1, Len(frame) - 1)), frame[Len(frame)])

\* sort_values("index"): the rows with an index ascending, then the rows
\* whose index is NaN in the order they had (na_position="last").
SortValues(frame) ==
    SortNumbered(SelectSeq(frame, LAMBDA r : r.index # NaNIndex))
    \o SelectSeq(frame, LAMBDA r : r.index = NaNIndex)

\* drop("index", axis=1), then to_excel: NaN and "" are both an empty cell.
ToExcel(frame) ==
    [k \in 1..Len(frame) |-> [c \in Cols |-> IF frame[k][c] = NaN THEN EMPTY ELSE frame[k][c]]]

-----------------------------------------------------------------------------
(* The workbook file. *)

AbsentStore == [exists |-> FALSE, readable |-> FALSE, rows |-> <<>>]
\* The file right after it was opened for writing: zero bytes, no workbook.
TruncatedStore == [exists |-> TRUE, readable |-> FALSE, rows |-> <<>>]
Workbook(rows) == [exists |-> TRUE, readable |-> TRUE, rows |-> rows]

\* save_to_excel that forgets the rows already in the file (df = new_df always).
MergedFrameOverwrites(st, new_data) == new_data

\* save_to_excel, lines 191-200: the frame after the merge with the file.
MergedFrame(st, new_data) ==
    IF st.exists
    THEN DropDuplicates(Concat(ReadExcel(st.rows), new_data))
    ELSE new_data

\* save_to_excel, lines 204-208: the rows the file holds after the call.
SavedRows(st, new_data) == ToExcel(SortValues(MergedFrame(st, new_data)))

\* What an overwrite leaves when KeyboardInterrupt cuts it short: no workbook
\* at all, or a workbook with only some leading rows of the frame.
CutShort(frame) ==
    {TruncatedStore} \cup {Workbook(SubSeq(ToExcel(frame), 1, n)) : n \in 0..(Len(frame) - 1)}

-----------------------------------------------------------------------------
(* What the site serves. *)

\* The listing shows one notary (possibly on several rows and pages).
Names == {<<"A", SPACE, "B">>}
CountryNodes == {ABSENT, EMPTY, <<"Paris,", SPACE, "France">>}
MailLinks == {ABSENT, NOHREF, <<MAILTO, "a@x.com">>}
\* The profile pages served during a run: complete, without both optional
\* nodes, with a country node without text, with a mail link without target.
CompleteProfile == <<<<"Paris,", SPACE, "France">>, <<MAILTO, "a@x.com">>>>
BareProfile == <<ABSENT, ABSENT>>
Profiles == {CompleteProfile, BareProfile,
             <<EMPTY, <<MAILTO, "a@x.com">>>>,
             <<<<"Paris,", SPACE, "France">>, NOHREF>>}

None == <<>>
Some(record) == <<record>>

\* get_notary_details, lines 102-125: the record built from the profile page.
Record(idx, full_name, countryNode, mailLink) ==
    [index |-> idx, FullName |-> full_name, FirstName |-> FirstNameOf(full_name),
     Email |-> EmailOf(mailLink), Country |-> CountryOf(countryNode)]

\* get_notary_details, lines 93-135: what the worker puts on the queue.
\* title: "ok" (marker appeared), "timeout" (TimeoutException), "error"
\* (any other exception of driver.get or the wait).
Outcome(title, idx, full_name, countryNode, mailLink) ==
    IF title # "ok" THEN None
    ELSE IF \E c \in Cols : Raised(Record(idx, full_name, countryNode, mailLink)[c])
         THEN None
         ELSE Some(Record(idx, full_name, countryNode, mailLink))

-----------------------------------------------------------------------------
(* Sessions: setup_driver / driver.quit. *)

Sessions == 1..Len(quits)
Held == {s \in Sessions : quits[s] = 0}
Min(a, b) == IF a < b THEN a ELSE b

\* A thread of process_notaries, lines 245-250, with what it has done so far:
\* pc: "start", "session" (driver acquired), "finally" (outcome put), "dead";
\* result: "" (none yet), "record", "timeout", "error"; put: what it put.
Thread(idx, full_name) ==
    [index |-> idx, full_name |-> full_name, pc |-> "start", driver |-> 0,
     result |-> "", put |-> <<>>]
AllDead == \A k \in 1..Len(threads) : threads[k].pc = "dead"
Range(seq) == {seq[k] : k \in 1..Len(seq)}

-----------------------------------------------------------------------------
(* main *)

Init ==
    /\ pc = "fetch"
    /\ doneBy = ""
    /\ page = 0
    /\ listed = 0
    /\ list_elements = <<>>
    /\ i = 0
    /\ all_data = 0
    /\ main_driver = 1
    /\ elements = <<>>
    /\ index = 0
    /\ listing = <<>>
    /\ threads = <<>>
    /\ result_queue = <<>>
    /\ details = <<>>
    /\ df = <<>>
    /\ store = AbsentStore
    /\ persisted = {}
    /\ quits = <<0>>

\* A main that quits its driver after the loop instead of in a finally block:
\* an exception leaves the session open.
EndRunWithoutFinally(cause) ==
    /\ pc' = "Done"
    /\ doneBy' = cause
    /\ quits' = IF cause \in {"error", "persist", "interrupt"}
                THEN quits
                ELSE [quits EXCEPT ![main_driver] = @ + 1]
    /\ list_elements' = <<>>
    /\ i' = 0
    /\ elements' = <<>>
    /\ index' = 0
    /\ details' = <<>>
    /\ df' = <<>>
    /\ UNCHANGED <<page, listed, all_data, main_driver, listing, workerVars>>

\* Lines 300-302, 308-310, 332-347: leave the loop (break or exception) and run
\* the finally block: main_driver.quit(). The frames of main and of the calls
\* it was in are gone; the threads still running keep their queue.
EndRun(cause) ==
    /\ pc' = "Done"
    /\ doneBy' = cause
    /\ quits' = [quits EXCEPT ![main_driver] = @ + 1]
    /\ list_elements' = <<>>
    /\ i' = 0
    /\ elements' = <<>>
    /\ index' = 0
    /\ details' = <<>>
    /\ df' = <<>>
    /\ UNCHANGED <<page, listed, all_data, main_driver, listing, workerVars>>

\* Lines 289-310: FetchingPage(n), the listing shows n rows.
FetchPage ==
    /\ pc = "fetch"
    /\ \E n \in 0..(MaxNotaries - listed) :
        IF n = 0
        THEN /\ EndRun("empty")
             /\ UNCHANGED storeVars
        ELSE /\ list_elements' = [k \in 1..n |-> k]
             /\ listed' = listed + n
             /\ i' = 0
             /\ pc' = "dispatch"
             /\ UNCHANGED <<doneBy, page, all_data, main_driver, batchVars,
                            workerVars, storeVars, quits>>

\* Lines 296-302: the wait for a listing row times out.
FetchTimeout ==
    /\ pc = "fetch"
    /\ EndRun("timeout")
    /\ UNCHANGED storeVars

\* Lines 292, 325, 336-338, 342-343: navigation or lookup raises in the driver.
DriverError ==
    /\ pc \in {"fetch", "probe"}
    /\ EndRun("error")
    /\ UNCHANGED storeVars

\* A driver without the concurrency cap: the rest of the page is one batch.
DispatchWholePage ==
    /\ pc = "dispatch"
    /\ i < Len(list_elements)
    /\ elements' = SubSeq(list_elements, i + 1, Len(list_elements))
    /\ index' = 0
    /\ listing' = <<>>
    /\ threads' = <<>>
    /\ result_queue' = <<>>
    /\ details' = <<>>
    /\ pc' = "spawn"
    /\ UNCHANGED <<doneBy, driverVars, df, storeVars, quits>>

\* Lines 313-319: the next batch of the page, handed to process_notaries.
Dispatch ==
    /\ pc = "dispatch"
    /\ i < Len(list_elements)
    /\ elements' = SubSeq(list_elements, i + 1, Min(i + BATCH_SIZE, Len(list_elements)))
    /\ index' = 0
    /\ listing' = <<>>
    /\ threads' = <<>>
    /\ result_queue' = <<>>
    /\ details' = <<>>
    /\ pc' = "spawn"
    /\ UNCHANGED <<doneBy, driverVars, df, storeVars, quits>>

\* A batch loop that stops before a last batch shorter than BATCH_SIZE.
PageDoneSkipsPartialBatch ==
    /\ pc = "dispatch"
    /\ i + BATCH_SIZE > Len(list_elements)
    /\ pc' = "probe"
    /\ UNCHANGED <<doneBy, driverVars, batchVars, workerVars, storeVars, quits>>

\* Line 313: the batches of the page are used up.
PageDone ==
    /\ pc = "dispatch"
    /\ i >= Len(list_elements)
    /\ pc' = "probe"
    /\ UNCHANGED <<doneBy, driverVars, batchVars, workerVars, storeVars, quits>>

\* A probe that moves on by two pages when the next page has rows.
ProbeNextSkipsPage ==
    /\ pc = "probe"
    /\ \/ /\ EndRun("exhausted")
          /\ UNCHANGED storeVars
       \/ /\ page < MaxPage
          /\ page' = page + 2
          /\ pc' = "fetch"
          /\ UNCHANGED <<doneBy, listed, list_elements, i, all_data, main_driver,
                         batchVars, workerVars, storeVars, quits>>

\* Lines 323-335: ProbingNext.
ProbeNext ==
    /\ pc = "probe"
    /\ \/ /\ EndRun("exhausted")
          /\ UNCHANGED storeVars
       \/ /\ page < MaxPage
          /\ page' = page + 1
          /\ pc' = "fetch"
          /\ UNCHANGED <<doneBy, listed, list_elements, i, all_data, main_driver,
                         batchVars, workerVars, storeVars, quits>>

-----------------------------------------------------------------------------
(* process_notaries *)

\* Lines 241-244, 252-257: what reading a listing row gives.
\* h3: the row's name, or ABSENT when find_element raises.
\* href: "url", "" (no link target) or "raise" (no anchor).
Read(h3, href) ==
    IF h3 = ABSENT \/ href = "raise" THEN "unparsable"
    ELSE IF href = "" THEN "nourl"
    ELSE "entry"

\* The dispatch loop without the test of line 244: a thread for every row
\* whose name and anchor were found, with or without a link target.
ReadEntryWithoutUrlTest(h3, href) ==
    /\ pc = "spawn"
    /\ index < Len(elements)
    /\ listing' = Append(listing, Read(h3, href))
    /\ threads' = IF Read(h3, href) \in {"entry", "nourl"}
                  THEN Append(threads, Thread(index, h3))
                  ELSE threads
    /\ index' = index + 1
    /\ UNCHANGED <<pc, doneBy, driverVars, elements, details, df, result_queue,
                   storeVars, quits>>

\* Lines 238-257, one pass of the dispatch loop: the listing row is read and
\* a thread is started for it, or the row is skipped.
ReadEntry(h3, href) ==
    /\ pc = "spawn"
    /\ index < Len(elements)
    /\ listing' = Append(listing, Read(h3, href))
    /\ threads' = IF Read(h3, href) = "entry"
                  THEN Append(threads, Thread(index, h3))
                  ELSE threads
    /\ index' = index + 1
    /\ UNCHANGED <<pc, doneBy, driverVars, elements, details, df, result_queue,
                   storeVars, quits>>

StartThreads ==
    \E h3 \in Names \cup {ABSENT}, href \in {"url", "", "raise"} : ReadEntry(h3, href)

\* A coordinator that waits for one outcome per thread on the queue instead of
\* joining the threads: a thread that ended without an outcome blocks it.
JoinThreadsWaitsForOutcomes ==
    /\ pc = "spawn"
    /\ index = Len(elements)
    /\ Len(result_queue) = Len(threads)
    /\ pc' = "drain"
    /\ UNCHANGED <<doneBy, driverVars, batchVars, workerVars, storeVars, quits>>

\* A coordinator that goes on to the drain without joining the threads.
JoinThreadsWithoutWaiting ==
    /\ pc = "spawn"
    /\ index = Len(elements)
    /\ pc' = "drain"
    /\ UNCHANGED <<doneBy, driverVars, batchVars, workerVars, storeVars, quits>>

\* Lines 259-261: every thread of the batch is joined.
JoinThreads ==
    /\ pc = "spawn"
    /\ index = Len(elements)
    /\ AllDead
    /\ pc' = "drain"
    /\ UNCHANGED <<doneBy, driverVars, batchVars, workerVars, storeVars, quits>>

\* A drain that stops at the first None instead of skipping it.
RECURSIVE DrainedUntilNone(_)
DrainedUntilNone(queue) ==
    IF queue = <<>> \/ queue[1] = None THEN <<>>
    ELSE <<queue[1][1]>> \o DrainedUntilNone(Tail(queue))

\* Lines 264-267: the records on the queue, in arrival order, without the Nones.
Drained(queue) ==
    [k \in 1..Len(SelectSeq(queue, LAMBDA d : d # None)) |->
        SelectSeq(queue, LAMBDA d : d # None)[k][1]]

\* Lines 273, 319-320: process_notaries returns details to main, which adds
\* them to all_data; the locals of the call are gone.
ReturnBatch(returned) ==
    /\ all_data' = all_data + Len(returned)
    /\ i' = i + BATCH_SIZE
    /\ pc' = "dispatch"
    /\ elements' = <<>>
    /\ index' = 0
    /\ listing' = <<>>
    /\ threads' = <<>>
    /\ result_queue' = <<>>
    /\ details' = <<>>
    /\ df' = <<>>
    /\ UNCHANGED <<doneBy, page, listed, list_elements, main_driver, quits>>

\* A coordinator without the test of line 270: it hands the drained list
\* to save_to_excel whether or not it holds a record.
CollectResultsAlwaysSaves ==
    /\ pc = "drain"
    /\ details' = Drained(result_queue)
    /\ result_queue' = <<>>
    /\ pc' = "save"
    /\ UNCHANGED <<doneBy, driverVars, elements, index, listing, threads, df, quits>>
    /\ UNCHANGED storeVars

\* Lines 263-273: drain the queue; with no record, return without saving.
CollectResults ==
    /\ pc = "drain"
    /\ IF Drained(result_queue) # <<>>
       THEN /\ details' = Drained(result_queue)
            /\ result_queue' = <<>>
            /\ pc' = "save"
            /\ UNCHANGED <<doneBy, driverVars, elements, index, listing, threads, df, quits>>
       ELSE ReturnBatch(<<>>)
    /\ UNCHANGED storeVars

-----------------------------------------------------------------------------
(* save_to_excel, called by process_notaries (line 271), and format_excel.  *)
(* A read or an open for writing can fail (the file is unreadable or        *)
(* unwritable); the exception leaves the file as it was.                    *)

\* An except block without the raise of line 217: the failure is logged and
\* process_notaries returns the records as if they had been saved.
SaveFailureSwallowed ==
    /\ ReturnBatch(details)
    /\ UNCHANGED storeVars

\* Lines 215-217, 342-347: the exception is logged, re-raised, and caught by main.
SaveFails ==
    /\ EndRun("persist")
    /\ UNCHANGED storeVars

\* Lines 191-205: read the file if it exists, merge, sort.
ReadAndMerge ==
    /\ pc = "save"
    /\ \/ /\ store.exists => store.readable
          /\ df' = SortValues(MergedFrame(store, details))
          /\ pc' = "write"
          /\ UNCHANGED <<doneBy, driverVars, elements, index, listing, details,
                         workerVars, storeVars, quits>>
       \/ /\ store.exists
          /\ SaveFails

\* Line 208: to_excel opens the file for writing, which empties it.
OpenForWrite ==
    /\ pc = "write"
    /\ \/ /\ store' = TruncatedStore
          /\ pc' = "writing"
          /\ UNCHANGED <<doneBy, driverVars, batchVars, workerVars, persisted, quits>>
       \/ SaveFails

\* Line 208: the workbook is written and closed.
FinishWrite ==
    /\ pc = "writing"
    /\ store' = Workbook(ToExcel(df))
    /\ pc' = "format"
    /\ UNCHANGED <<doneBy, driverVars, batchVars, workerVars, persisted, quits>>

\* A format_excel that runs in the background: save_to_excel and
\* process_notaries return while the file is open for the styled re-save.
OpenForFormatInBackground ==
    /\ pc = "format"
    /\ store' = TruncatedStore
    /\ ReturnBatch(details)
    /\ UNCHANGED persisted

\* format_excel, lines 147-170: load the workbook, style it, open the file to
\* save it again. Any exception is logged and dropped (lines 173-174), and
\* save_to_excel and process_notaries return.
OpenForFormat ==
    /\ pc = "format"
    /\ \/ /\ store' = TruncatedStore
          /\ pc' = "formatting"
          /\ UNCHANGED <<doneBy, driverVars, batchVars, workerVars, persisted, quits>>
       \/ /\ ReturnBatch(details)
          /\ persisted' = Range(store.rows)
          /\ UNCHANGED store

\* format_excel, line 170, then lines 213, 273, 319-320: the styled workbook
\* (the same rows) is saved, save_to_excel and process_notaries return.
FinishFormat ==
    /\ pc = "formatting"
    /\ store' = Workbook(ToExcel(df))
    /\ persisted' = Range(ToExcel(df))
    /\ ReturnBatch(details)

-----------------------------------------------------------------------------
(* get_notary_details, one thread per started entry *)

\* Line 92: setup_driver() gives the thread a session of its own.
WorkerSetup(k) ==
    /\ threads[k].pc = "start"
    /\ quits' = Append(quits, 0)
    /\ threads' = [threads EXCEPT ![k].pc = "session", ![k].driver = Len(quits) + 1]
    /\ UNCHANGED <<pc, doneBy, driverVars, batchVars, result_queue, storeVars>>

\* Line 92: setup_driver() raises; the thread ends without a session.
WorkerSetupFails(k) ==
    /\ threads[k].pc = "start"
    /\ threads' = [threads EXCEPT ![k].pc = "dead", ![k].result = "error"]
    /\ UNCHANGED <<pc, doneBy, driverVars, batchVars, result_queue, storeVars, quits>>

\* How the try block ended: with a record, with TimeoutException (line 130)
\* or with another exception (line 133).
Result(title, outcome) ==
    IF title = "timeout" THEN "timeout"
    ELSE IF outcome = None THEN "error"
    ELSE "record"

\* A worker whose timeout handler ends the thread without the finally block.
ExtractLeaksOnTimeout(k, title, profile) ==
    /\ threads[k].pc = "session"
    /\ result_queue' = Append(result_queue,
           Outcome(title, threads[k].index, threads[k].full_name, profile[1], profile[2]))
    /\ threads' = [threads EXCEPT
           ![k].pc = IF title = "timeout" THEN "dead" ELSE "finally",
           ![k].put = Outcome(title, threads[k].index, threads[k].full_name,
                              profile[1], profile[2]),
           ![k].result = Result(title, Outcome(title, threads[k].index,
                              threads[k].full_name, profile[1], profile[2]))]
    /\ UNCHANGED <<pc, doneBy, driverVars, batchVars, storeVars, quits>>

\* Lines 93-135: the try block and its handlers put one outcome on the queue.
Extract(k, title, profile) ==
    /\ threads[k].pc = "session"
    /\ result_queue' = Append(result_queue,
           Outcome(title, threads[k].index, threads[k].full_name, profile[1], profile[2]))
    /\ threads' = [threads EXCEPT
           ![k].pc = "finally",
           ![k].put = Outcome(title, threads[k].index, threads[k].full_name,
                              profile[1], profile[2]),
           ![k].result = Result(title, Outcome(title, threads[k].index,
                              threads[k].full_name, profile[1], profile[2]))]
    /\ UNCHANGED <<pc, doneBy, driverVars, batchVars, storeVars, quits>>

WorkerExtract(k) ==
    \E title \in {"ok", "timeout", "error"}, profile \in Profiles : Extract(k, title, profile)

\* Lines 136-137: finally: driver.quit().
WorkerQuit(k) ==
    /\ threads[k].pc = "finally"
    /\ quits' = [quits EXCEPT ![threads[k].driver] = @ + 1]
    /\ threads' = [threads EXCEPT ![k].pc = "dead"]
    /\ UNCHANGED <<pc, doneBy, driverVars, batchVars, result_queue, storeVars>>

WorkerStep(k) ==
    \/ WorkerSetup(k)
    \/ WorkerSetupFails(k)
    \/ WorkerExtract(k)
    \/ WorkerQuit(k)

Worker == \E k \in 1..Len(threads) : WorkerStep(k)

-----------------------------------------------------------------------------
(* KeyboardInterrupt, raised in the main thread wherever it is (lines 340-347) *)

\* Daemon threads: the interruption that ends main ends the workers with it.
InterruptEndsWorkers ==
    /\ pc # "Done"
    /\ pc' = "Done"
    /\ doneBy' = "interrupt"
    /\ quits' = [quits EXCEPT ![main_driver] = @ + 1]
    /\ list_elements' = <<>>
    /\ i' = 0
    /\ elements' = <<>>
    /\ index' = 0
    /\ details' = <<>>
    /\ df' = <<>>
    /\ threads' = [k \in 1..Len(threads) |-> [threads[k] EXCEPT !.pc = "dead"]]
    /\ IF pc \in {"writing", "formatting"}
       THEN store' \in CutShort(df)
       ELSE UNCHANGED store
    /\ UNCHANGED <<page, listed, all_data, main_driver, listing, result_queue, persisted>>

Interrupt ==
    /\ pc # "Done"
    /\ EndRun("interrupt")
    /\ IF pc \in {"writing", "formatting"}
       THEN store' \in CutShort(df)
       ELSE UNCHANGED store
    /\ UNCHANGED persisted

-----------------------------------------------------------------------------

Next ==
    \/ FetchPage
    \/ FetchTimeout
    \/ DriverError
    \/ Dispatch
    \/ PageDone
    \/ ProbeNext
    \/ StartThreads
    \/ JoinThreads
    \/ CollectResults
    \/ ReadAndMerge
    \/ OpenForWrite
    \/ FinishWrite
    \/ OpenForFormat
    \/ FinishFormat
    \/ Worker
    \/ Interrupt

\* The steps of the main thread.
MainThread ==
    \/ FetchPage
    \/ FetchTimeout
    \/ DriverError
    \/ Dispatch
    \/ PageDone
    \/ ProbeNext
    \/ StartThreads
    \/ JoinThreads
    \/ CollectResults
    \/ ReadAndMerge
    \/ OpenForWrite
    \/ FinishWrite
    \/ OpenForFormat
    \/ FinishFormat

Spec == Init /\ [][Next]_vars

\* The run without an interruption, under a scheduler that does not stop
\* while a thread can take a step: the main thread unless it is blocked in
\* join(), a worker unless it has ended.
FairNext == MainThread \/ Worker

FairSpec == Init /\ [][FairNext]_vars /\ WF_vars(FairNext)

-----------------------------------------------------------------------------
(* save_to_excel on its own: any sequence of calls, with a batch of records *)
(* or with an empty list, starting without a file, none of them failing or  *)
(* interrupted.                                                             *)

\* The notaries whose records are merged: one with a complete profile, the
\* same one without the optional nodes, another one without them.
MergeEntries == {<<<<"A", SPACE, "B">>, CompleteProfile>>,
                 <<<<"A", SPACE, "B">>, BareProfile>>,
                 <<<<"C", SPACE, "D">>, BareProfile>>}

\* The records a worker can put: built as get_notary_details builds them.
BatchRecords ==
    {Record(idx, e[1], e[2][1], e[2][2]) : idx \in 0..(MaxBatch - 1), e \in MergeEntries}

\* What process_notaries can hand over: records with the distinct indexes
\* enumerate() gave them, in any arrival order.
Batches ==
    {b \in UNION {[1..n -> BatchRecords] : n \in 1..MaxBatch} :
        \A j, k \in 1..Len(b) : j # k => b[j].index # b[k].index}

\* Lines 185-208: the file after the call: untouched when the list is empty
\* (the early return of line 187), the written workbook otherwise.
StoreAfter(st, new_data) ==
    IF new_data = <<>> THEN st ELSE Workbook(SavedRows(st, new_data))

\* Lines 185-213: the whole call.
save_to_excel(new_data) ==
    /\ pc = "save_to_excel"
    /\ details' = new_data
    /\ store' = StoreAfter(store, new_data)
    /\ persisted' = Range(StoreAfter(store, new_data).rows)
    /\ UNCHANGED <<pc, doneBy, driverVars, elements, index, listing, df, workerVars, quits>>

MergeInit ==
    /\ pc = "save_to_excel"
    /\ doneBy = ""
    /\ page = 0
    /\ listed = 0
    /\ list_elements = <<>>
    /\ i = 0
    /\ all_data = 0
    /\ main_driver = 1
    /\ elements = <<>>
    /\ index = 0
    /\ listing = <<>>
    /\ threads = <<>>
    /\ result_queue = <<>>
    /\ details = <<>>
    /\ df = <<>>
    /\ store = AbsentStore
    /\ persisted = {}
    /\ quits = <<0>>

MergeNext == \E new_data \in Batches \cup {<<>>} : save_to_excel(new_data)

MergeSpec == MergeInit /\ [][MergeNext]_vars

-----------------------------------------------------------------------------
(* get_notary_details on its own: one thread, started for any name the      *)
(* listing can show, against any profile page the site can serve.           *)

\* The names a listing row can show: none, blanks only, two and three tokens.
ExtractNames == {EMPTY, <<SPACE>>, <<"A", SPACE, "B">>,
                 <<"Jane", SPACE, "Q.", SPACE, "Public">>}

\* The profile page behind the row's link: how the wait for the title marker
\* ends, what the country node is and what the mail link is.
ProfilePages == [title : {"ok", "timeout", "error"}, country : CountryNodes, mail : MailLinks]

\* In this specification listing[k] is the page served to thread k.
ExtractServed(k) ==
    Extract(k, listing[k].title, <<listing[k].country, listing[k].mail>>)

ExtractInit ==
    /\ pc = "spawn"
    /\ doneBy = ""
    /\ page = 0
    /\ listed = 1
    /\ list_elements = <<1>>
    /\ i = 0
    /\ all_data = 0
    /\ main_driver = 1
    /\ elements = <<1>>
    /\ index = 1
    /\ listing \in {<<served>> : served \in ProfilePages}
    /\ threads \in {<<Thread(idx, full_name)>> :
                       idx \in 0..(MaxBatch - 1), full_name \in ExtractNames}
    /\ result_queue = <<>>
    /\ details = <<>>
    /\ df = <<>>
    /\ store = AbsentStore
    /\ persisted = {}
    /\ quits = <<0>>

ExtractNext ==
    \E k \in 1..Len(threads) :
        \/ WorkerSetup(k)
        \/ WorkerSetupFails(k)
        \/ ExtractServed(k)
        \/ WorkerQuit(k)

ExtractSpec == ExtractInit /\ [][ExtractNext]_vars

-----------------------------------------------------------------------------
(* Claims about save_to_excel, checked under MergeSpec. *)

\* C1: the persisted store never contains two rows that are equal in all four
\* fields (Full Name, First Name, Email, Country), whatever batches were merged.
C1_NoIdenticalRows ==
    \A j, k \in 1..Len(store.rows) : j # k => store.rows[j] # store.rows[k]

\* C2: merging the batch that the previous call merged leaves the store as
\* that previous call left it: merge(B) twice is merge(B) once.
C2_MergeIdempotent ==
    [][details' = details => store' = store]_vars

\* C3: a merge that completes keeps every row the store held, adds the four
\* persisted fields of every record of the batch, and leaves a workbook that
\* exists, can be read and is not empty.
C3_StoreAccumulates ==
    [][/\ Range(store.rows) \subseteq Range(store'.rows)
       /\ \A d \in Range(details') : Fields(d) \in Range(store'.rows)
       /\ store'.exists /\ store'.readable /\ store'.rows # <<>>]_vars

\* A second merge has completed: the store holds a row of an earlier batch
\* that the last batch did not bring, next to the rows of the last batch.
C3_Witness ==
    /\ store.readable
    /\ details # <<>>
    /\ \E r \in Range(store.rows) : \A d \in Range(details) : Fields(d) # r
    /\ \A d \in Range(details) : Fields(d) \in Range(store.rows)

-----------------------------------------------------------------------------
(* Claims about a run, checked under Spec. *)

Interrupted == pc = "Done" /\ doneBy = "interrupt"

\* C4: after a user interruption, wherever it arrived, the driver is Done and
\* the store still holds every row it held when the last completed merge returned.
C4_InterruptKeepsPersistedRows ==
    Interrupted => persisted \subseteq Range(store.rows)

\* The records process_notaries has in hand: on the queue or drained.
Collected == Range(details) \cup {q[1] : q \in {x \in Range(result_queue) : x # None}}

\* C5: a thread exists only for a listing row whose name and URL were read,
\* never for a row without URL or an unparsable one, and every record
\* collected in a batch is the record of a thread of that batch whose
\* extraction neither timed out nor failed.
C5_RecordsOnlyFromReadEntries ==
    /\ \A k \in 1..Len(threads) :
          /\ threads[k].index + 1 <= Len(listing)
          /\ listing[threads[k].index + 1] = "entry"
          /\ threads[k].full_name \in Names
    /\ \A n \in 1..Len(listing) :
          listing[n] # "entry" => \A k \in 1..Len(threads) : threads[k].index # n - 1
    /\ \A s \in Sessions \ {main_driver} :
          quits[s] = 0 => \E k \in 1..Len(threads) : threads[k].driver = s
    /\ \A d \in Collected :
          \E k \in 1..Len(threads) :
              /\ threads[k].index = d.index
              /\ threads[k].full_name = d.FullName
              /\ threads[k].result = "record"

\* A batch in which one row had no URL and the other row gave a record.
C5_Witness ==
    /\ pc = "save"
    /\ "nourl" \in Range(listing)
    /\ Len(threads) = 1
    /\ details # <<>>

\* The records of the threads that succeeded.
Successes == {threads[k].put[1] : k \in {j \in 1..Len(threads) : threads[j].put # None}}

\* C6: whatever the outcomes of the workers, process_notaries goes on: once
\* all threads have ended the join and the drain can proceed, and the drain
\* collects the record of every worker that succeeded, each once, saving them
\* when there is one and returning an empty list when there is none.
C6_EverySuccessCollected ==
    [][/\ (pc = "spawn" /\ index = Len(elements) /\ AllDead) => ENABLED JoinThreads
       /\ pc = "drain" => ENABLED CollectResults
       /\ (pc = "drain" /\ pc' \notin {"drain", "Done"}) =>
             IF Successes = {}
             THEN pc' = "dispatch" /\ all_data' = all_data /\ doneBy' = ""
             ELSE /\ pc' = "save"
                  /\ Range(details') = Successes
                  /\ Len(details') = Cardinality(Successes)
                  /\ doneBy' = ""]_vars

\* A batch is being saved in which one worker failed and another succeeded.
C6_Witness ==
    /\ pc = "save"
    /\ \E k \in 1..Len(threads) : threads[k].result \in {"timeout", "error"}
    /\ \E k \in 1..Len(threads) : threads[k].result = "record"
    /\ details # <<>>

\* C7: every session a worker acquired is released exactly once on each exit
\* path: held while the worker runs, quit once when it has ended, never quit
\* twice; no two threads use the same session, and none uses main's.
C7_SessionReleasedOncePerWorker ==
    /\ \A s \in Sessions : quits[s] <= 1
    /\ \A k \in 1..Len(threads) :
          /\ threads[k].pc = "start" => threads[k].driver = 0
          /\ threads[k].pc \in {"session", "finally"} => threads[k].driver \in Held
          /\ (threads[k].pc = "dead" /\ threads[k].driver # 0) => quits[threads[k].driver] = 1
          /\ (threads[k].result \in {"record", "timeout"}) => threads[k].driver # 0
          /\ threads[k].driver # main_driver
    /\ \A j, k \in 1..Len(threads) :
          (j # k /\ threads[j].driver # 0) => threads[j].driver # threads[k].driver
    /\ \A s \in Held : s = main_driver \/ \E k \in 1..Len(threads) : threads[k].driver = s

\* Two workers of a batch have ended, one with a record and one by a timeout.
C7_Witness ==
    /\ AllDead
    /\ \E j, k \in 1..Len(threads) :
          /\ threads[j].result = "record"
          /\ threads[k].result = "timeout"
          /\ quits[threads[j].driver] = 1
          /\ quits[threads[k].driver] = 1

\* C8: a failed merge ends the run: the driver is Done with its session
\* released and the batch is not counted; after Done no batch and no page is
\* dispatched; and a batch is only ever returned to main after its records
\* were written to a readable store.
C8_MergeFailureEndsRun ==
    [][/\ doneBy' = "persist" =>
             /\ pc \in {"save", "write"}
             /\ pc' = "Done"
             /\ quits'[main_driver] = 1
             /\ all_data' = all_data
       /\ pc = "Done" =>
             /\ pc' = "Done"
             /\ page' = page
             /\ all_data' = all_data
             /\ Len(threads') = Len(threads)
             /\ doneBy' = doneBy
       /\ all_data' # all_data =>
             /\ store'.readable
             /\ \A d \in Range(details) : Fields(d) \in Range(store'.rows)]_vars

\* The run has ended on a failed merge into a store that already existed.
C8_Witness ==
    /\ pc = "Done"
    /\ doneBy = "persist"
    /\ store.exists
    /\ all_data > 0

\* The process exits when main has returned and every thread has ended.
Exited == pc = "Done" /\ AllDead

\* C9: however the run ends, main's session is released when the driver is
\* Done, and no session at all is held when the process exits.
C9_NoSessionHeldAtExit ==
    /\ pc = "Done" => quits[main_driver] = 1
    /\ Exited => Held = {}

\* The process has exited after an interruption that found workers running.
C9_Witness ==
    /\ Exited
    /\ doneBy = "interrupt"
    /\ Len(threads) = BATCH_SIZE
    /\ \A k \in 1..Len(threads) : threads[k].driver # 0

\* C10 as stated: the interruption is acted on only between batches, so when
\* the driver is Done after an interruption every worker has ended and the
\* records of the batch have been drained and merged.
C10_InterruptWaitsForBatch ==
    Interrupted => AllDead /\ result_queue = <<>>

\* C10 as amended: the interruption is acted on at once, wherever main is; it
\* ends the driver without touching the threads or their queue, every thread
\* that has not ended can still take its next step after the driver is Done,
\* and nothing is merged into the store after the driver is Done.
C10_InterruptLeavesWorkersRunning ==
    [][/\ (doneBy = "" /\ doneBy' = "interrupt") =>
             /\ pc' = "Done"
             /\ threads' = threads
             /\ result_queue' = result_queue
       /\ pc = "Done" =>
             /\ store' = store
             /\ \A k \in 1..Len(threads) :
                   threads[k].pc # "dead" => ENABLED WorkerStep(k)]_vars

\* The driver is Done after an interruption while a worker holds a session
\* and a sibling has already put its record on the queue.
C10_Witness ==
    /\ Interrupted
    /\ \E k \in 1..Len(threads) : threads[k].pc = "session"
    /\ \E k \in 1..Len(threads) : threads[k].pc = "dead" /\ threads[k].result = "record"
    /\ result_queue # <<>>

-----------------------------------------------------------------------------
(* Claims about the pagination driver. *)

\* C11: the directory being finite and every worker ending, the run reaches
\* Done without an interruption having to end it.
C11_RunReachesDone ==
    <>(pc = "Done")

\* The run has ended because the directory was exhausted, after batches whose
\* workers all ended and whose records were merged.
C11_Witness ==
    /\ pc = "Done"
    /\ doneBy = "exhausted"
    /\ all_data > 0
    /\ store.readable

\* C12: pages are fetched in increasing order from page 0, one by one, each
\* once; a listing timeout, a fetched page without rows and a probe without
\* rows each end the run at once; no batch is dispatched for a page without
\* rows; a page with at most BATCH_SIZE rows gives exactly one batch, and the
\* store never holds more rows than the listing has shown.
C12_PagesInOrder ==
    [][/\ page' # page => (pc = "probe" /\ pc' = "fetch" /\ page' = page + 1)
       /\ (pc' = "fetch" /\ pc # "fetch") => (pc = "probe" /\ page' = page + 1)
       /\ (pc = "fetch" /\ pc' # "fetch") =>
             \/ pc' = "Done"
             \/ pc' = "dispatch" /\ list_elements' # <<>> /\ i' = 0
       /\ (pc = "probe" /\ pc' # "probe") => pc' \in {"Done", "fetch"}
       /\ pc' = "spawn" => (list_elements' # <<>> /\ elements' # <<>>)
       /\ (pc' = "probe" /\ Len(list_elements') <= BATCH_SIZE) => i' = BATCH_SIZE
       /\ Len(store'.rows) <= listed'
       /\ all_data' <= listed'
       /\ pc = "Done" => (pc' = "Done" /\ page' = page)]_vars

\* The run ended after the probe of page 1 found nothing, page 0 having had
\* a single batch whose rows all gave a record.
C12_Witness ==
    /\ pc = "Done"
    /\ doneBy = "exhausted"
    /\ page = 0
    /\ listed = BATCH_SIZE
    /\ Len(store.rows) = BATCH_SIZE

\* C19: a merge called with an empty list leaves the store as it is, and
\* process_notaries starts a merge only with at least one record: a batch
\* whose extractions all failed returns without touching the store, and
\* the store changes only inside a merge of a non-empty list.
C19_EmptyBatchLeavesStore ==
    [][/\ StoreAfter(store, <<>>) = store
       /\ (pc' = "save" /\ pc # "save") => details' # <<>>
       /\ (pc = "drain" /\ Successes = {} /\ pc' \notin {"drain", "Done"}) =>
             (pc' = "dispatch" /\ store' = store /\ persisted' = persisted)
       /\ store' # store =>
             (details # <<>> /\ pc \in {"write", "writing", "format", "formatting"})]_vars

\* A batch whose workers all failed is about to be returned, next to a store
\* that an earlier batch created.
C19_Witness ==
    /\ pc = "drain"
    /\ threads # <<>>
    /\ Successes = {}
    /\ store.readable
    /\ store.rows # <<>>

-----------------------------------------------------------------------------
(* Claims about the order of the rows, checked under MergeSpec. *)

\* C13: after every merge the rows of the store are in ascending order of the
\* in-batch ordinal of their records, the rows of earlier batches included.
\* Stated for the merge that follows the first one, where the store holds
\* exactly the rows of the previous batch (details) and the new batch is
\* details': the rows of the new store are the rows of some sequence of
\* records of the two batches that ascends in "index".
C13_RowsInOrdinalOrder ==
    [][(store.exists /\ store.rows = ToExcel(SortValues(details))) =>
          \E s \in [1..Len(store'.rows) -> Range(details) \cup Range(details')] :
              /\ ToExcel(s) = store'.rows
              /\ \A j, k \in 1..Len(s) : j < k => s[j].index <= s[k].index]_vars

-----------------------------------------------------------------------------
(* Claims about the record of one extraction, checked under ExtractSpec. *)

\* The try block of thread k has ended on a page whose title marker appeared.
TitleAppeared(k) ==
    /\ threads[k].driver # 0
    /\ threads[k].result # ""
    /\ listing[k].title = "ok"

\* C14: for every full name, the empty one and one of blanks only included,
\* an extraction whose title marker and optional fields were found gives a
\* record whose first name is the first whitespace-delimited token of the
\* full name, or the empty string when the name has no token.
C14_FirstNameIsFirstToken ==
    \A k \in 1..Len(threads) :
        (/\ TitleAppeared(k)
         /\ listing[k].country \in {ABSENT, <<"Paris,", SPACE, "France">>}
         /\ listing[k].mail \in {ABSENT, <<MAILTO, "a@x.com">>}) =>
            /\ threads[k].put # None
            /\ threads[k].put[1].FullName = threads[k].full_name
            /\ threads[k].put[1].FirstName =
                   IF Split(threads[k].full_name) = <<>> THEN EMPTY
                   ELSE Split(threads[k].full_name)[1]

\* C20: once the title marker has appeared, every state of the two optional
\* fields gives a record: a country node or mail link that is absent, or
\* present without text / without link target, gives the empty string for
\* that field, and each field's value depends on its own node only.
C20_OptionalFieldsDefaultToEmpty ==
    \A k \in 1..Len(threads) :
        (TitleAppeared(k) /\ Split(threads[k].full_name) # <<>>) =>
            /\ threads[k].put # None
            /\ threads[k].put[1].Country =
                   IF listing[k].country = ABSENT \/ Split(listing[k].country) = <<>>
                   THEN EMPTY
                   ELSE Split(listing[k].country)[Len(Split(listing[k].country))]
            /\ threads[k].put[1].Email =
                   IF listing[k].mail \in {ABSENT, NOHREF}
                   THEN EMPTY
                   ELSE StripMailto(listing[k].mail)

-----------------------------------------------------------------------------
(* Claims about the batches of a run, checked under Spec. *)

\* The main thread is past the join of the current batch: draining or merging.
PastJoin == pc \in {"drain", "save", "write", "writing", "format", "formatting"}

\* The threads of the batch whose try block has ended, with a session.
Pushed == {k \in 1..Len(threads) : threads[k].driver # 0 /\ threads[k].result # ""}

\* C15: the queue is drained only after every thread of the batch has ended;
\* until the drain the queue holds exactly one outcome for each worker whose
\* extraction has ended, and none for the others; the drain takes every
\* outcome: the queue is left empty and every record on it is collected.
C15_DrainAfterJoin ==
    [][/\ PastJoin' => AllDead'
       /\ (pc' \in {"spawn", "drain"}) => Len(result_queue') = Cardinality(Pushed')
       /\ (pc = "drain" /\ pc' \notin {"drain", "Done"}) =>
             /\ AllDead
             /\ Len(result_queue) = Cardinality(Pushed)
             /\ result_queue' = <<>>
             /\ Len(details') = Len(SelectSeq(result_queue, LAMBDA d : d # None))]_vars

\* All threads of a full batch have ended and the drain is about to read a
\* queue that holds a failure and a record.
C15_Witness ==
    /\ pc = "drain"
    /\ Len(threads) = BATCH_SIZE
    /\ Len(result_queue) = BATCH_SIZE
    /\ None \in Range(result_queue)
    /\ \E d \in Range(result_queue) : d # None

\* The sessions of workers that have not been released.
LiveWorkerSessions == Held \ {main_driver}

\* C16: at every moment at most BATCH_SIZE worker sessions are live, and the
\* live ones all belong to threads of the one current batch, which were
\* started for distinct positions of that batch.
C16_LiveWorkersWithinBatch ==
    /\ Cardinality(LiveWorkerSessions) <= BATCH_SIZE
    /\ Len(threads) <= BATCH_SIZE
    /\ \A s \in LiveWorkerSessions :
          \E k \in 1..Len(threads) : threads[k].driver = s /\ threads[k].pc # "dead"
    /\ \A k \in 1..Len(threads) : threads[k].index \in 0..(BATCH_SIZE - 1)
    /\ \A j, k \in 1..Len(threads) : j # k => threads[j].index # threads[k].index

\* A full batch of workers hold their sessions at the same time.
C16_Witness ==
    /\ pc = "spawn"
    /\ Cardinality(LiveWorkerSessions) = BATCH_SIZE
    /\ \A k \in 1..Len(threads) : threads[k].pc = "session"

\* C17: batches are processed one at a time: a thread is started only in the
\* dispatch loop of the current batch; a batch is dispatched only from the
\* driver's batch loop, when no thread of an earlier batch is left, nothing
\* is left to merge and the store is not being written; a merge starts only
\* from the drain of the current batch, after all its threads have ended.
C17_OneBatchAtATime ==
    [][/\ Len(threads') > Len(threads) => (pc = "spawn" /\ pc' = "spawn")
       /\ (pc' = "spawn" /\ pc # "spawn") =>
             /\ pc = "dispatch"
             /\ threads = <<>> /\ threads' = <<>>
             /\ details = <<>> /\ df = <<>>
             /\ store.exists => store.readable
       /\ (pc' = "save" /\ pc # "save") => (pc = "drain" /\ AllDead)
       /\ (pc' \in {"write", "writing", "format", "formatting"}) =>
             (AllDead' /\ threads' = threads /\ details' = details)]_vars

\* The second batch of a page has its workers running after the first batch
\* was merged.
C17_Witness ==
    /\ pc = "spawn"
    /\ i > 0
    /\ store.readable
    /\ all_data > 0
    /\ \E k \in 1..Len(threads) : threads[k].pc = "session"

\* C18: the rows of a page are dispatched in consecutive batches of at most
\* BATCH_SIZE rows, in listing order, each row in exactly one batch: a batch
\* starts where the batch before it ended and the last one ends with the
\* page; the records each batch returns are added to the total; the driver
\* probes the next page only when the batches have covered the page.
C18_BatchesPartitionPage ==
    [][/\ (pc = "dispatch" /\ pc' = "spawn") =>
             /\ i < Len(list_elements)
             /\ Len(elements') = Min(BATCH_SIZE, Len(list_elements) - i)
             /\ \A j \in 1..Len(elements') : elements'[j] = list_elements[i + j]
       /\ (pc \in {"drain", "format", "formatting"} /\ pc' = "dispatch") =>
             /\ i' = i + Len(elements) \/ (i + Len(elements) = Len(list_elements) /\ i' >= Len(list_elements))
             /\ all_data' = all_data + (IF pc = "drain" THEN 0 ELSE Len(details))
             /\ list_elements' = list_elements
       /\ all_data' # all_data => (pc \in {"format", "formatting"} /\ pc' = "dispatch")
       /\ (pc' = "probe" /\ pc # "probe") =>
             (pc = "dispatch" /\ i >= Len(list_elements) /\ all_data' = all_data)]_vars

\* A page of more rows than a batch holds has been covered by two batches,
\* every row of which gave a record.
C18_Witness ==
    /\ pc = "probe"
    /\ Len(list_elements) > BATCH_SIZE
    /\ all_data = Len(list_elements)

====
